---- MODULE Spec2Model ----
(***************************************************************************)
(* Model of the physics-lab application: the physics core                  *)
(* (src/src/physics/magneticField.ts, measurement.ts, measurementB.ts,     *)
(* biotSavart.ts) and the state owner App (its code is in src/README.md).  *)
(*                                                                         *)
(* Numbers.  The program computes in IEEE doubles; the model computes in   *)
(* fixed point on these grids, rounding where a double would round:        *)
(*   length        cm            time                 ms                   *)
(*   velocity      cm/s          magnetic field (A)   nT                   *)
(*   flux          pWb           trigonometric values 1/1000               *)
(* Quantities obtained by a division of two grid values (flux rate, EMF,   *)
(* current, resistances, every Mode B quantity) are exact rationals        *)
(* [n |-> numerator, d |-> denominator > 0] in lowest terms:               *)
(*   flux rate     nWb/s  (pWb per ms)      EMF      nV                    *)
(*   current       nA                       resistance  Ohm                *)
(***************************************************************************)
EXTENDS Integers, Sequences, FiniteSets, TLC

\* ------------------------------------------------------------ arithmetic

Abs(a) == IF a < 0 THEN -a ELSE a

Sgn(a) == IF a < 0 THEN -1 ELSE IF a > 0 THEN 1 ELSE 0

Min(a, b) == IF a <= b THEN a ELSE b

Max(a, b) == IF a >= b THEN a ELSE b

\* a / b truncated toward zero (b > 0), symmetric in the sign of a.
DivTrunc(a, b) == Sgn(a) * (Abs(a) \div b)

\* a / b rounded to the nearest grid value, halves away from zero (b > 0).
DivRound(a, b) == Sgn(a) * ((2 * Abs(a) + b) \div (2 * b))

\* a * b / c truncated toward zero (c > 0), computed without forming a * b.
MulDiv(a, b, c) ==
    LET s  == Sgn(a) * Sgn(b)
        aa == Abs(a)
        bb == Abs(b)
    IN  s * ((aa \div c) * bb + ((aa % c) * bb) \div c)

RECURSIVE SqrtIter(_, _)
SqrtIter(n, x) ==
    LET y == (x + n \div x) \div 2
    IN  IF y >= x THEN x ELSE SqrtIter(n, y)

\* Math.sqrt on the integer grid: the floor of the square root.
ISqrt(n) == IF n <= 0 THEN 0 ELSE IF n < 4 THEN 1 ELSE SqrtIter(n, n \div 2)

\* Math.sqrt(a ** 2 + b ** 2), the operands scaled so the squares fit.
Hypot(a, b) ==
    LET s == Max(Abs(a), Abs(b)) \div 30000 + 1
    IN  s * ISqrt(DivTrunc(a, s) * DivTrunc(a, s) + DivTrunc(b, s) * DivTrunc(b, s))

RECURSIVE GCD(_, _)
GCD(a, b) == IF b = 0 THEN a ELSE GCD(b, a % b)

\* The rational n / d (d # 0) in lowest terms with a positive denominator.
Rat(n, d) ==
    LET g == GCD(Abs(n), Abs(d))
    IN  [n |-> Sgn(d) * (n \div g), d |-> Abs(d) \div g]

RatInt(k) == [n |-> k, d |-> 1]

RatZero == RatInt(0)

RatNeg(a) == [n |-> -a.n, d |-> a.d]

RatAbs(a) == [n |-> Abs(a.n), d |-> a.d]

RatAdd(a, b) == Rat(a.n * b.d + b.n * a.d, a.d * b.d)

RatMul(a, b) ==
    LET g1 == GCD(Abs(a.n), b.d)
        g2 == GCD(Abs(b.n), a.d)
    IN  Rat((a.n \div g1) * (b.n \div g2), (a.d \div g2) * (b.d \div g1))

\* a / b for b # 0.
RatDiv(a, b) == RatMul(a, [n |-> Sgn(b.n) * b.d, d |-> Abs(b.n)])

RatLt(a, b) == a.n * b.d < b.n * a.d

RatLe(a, b) == a.n * b.d <= b.n * a.d

\* x < 1e-9 for a rational x: the product with 1e9 is formed only when it fits.
RatBelow1e9th(x) == x.n <= 0 \/ (x.n <= 2 /\ x.n * 1000000000 < x.d)

\* Math.sin, argument in milliradians, value in 1/1000: Bhaskara's rational
\* approximation 16 x (pi - x) / (5 pi^2 - 4 x (pi - x)) on [0, pi], odd and
\* 2 pi periodic elsewhere (absolute error below 0.002), with pi = 3142 mrad;
\* numerator and denominator are both divided by 20 so the products fit.
MathSin(mrad) ==
    LET t == mrad % 6284
        h == IF t > 3142 THEN t - 3142 ELSE t
        p == h * (3142 - h)
        v == (16000 * (p \div 20)) \div ((5 * 3142 * 3142 - 4 * p) \div 20)
    IN  IF t > 3142 THEN -v ELSE v

\* Math.cos(x) = sin(x + pi / 2).
MathCos(mrad) == MathSin(mrad + 1571)

\* ------------------------------------------------- magneticField.ts

\* calculateMagneticField: the dipole field in nT at `point` (cm) of a dipole of
\* moment `dipoleMoment` (A m^2) at `magnetPos`.  k = MU_0 / (4 pi) = 1e-7 T m / A
\* is 100 nT m / A, and r3 in cm^3 is 1e-6 m^3: B = 100 * m * g / (r3 * 1e-6) nT
\* with g = (3 cos^2 - 1) carried in 1/1000000.
calculateMagneticField(point, magnetPos, dipoleMoment) ==
    LET rx       == point.x - magnetPos.x
        ry       == point.y - magnetPos.y
        r_mag    == ISqrt(rx * rx + ry * ry)
        r3       == r_mag * r_mag * r_mag
        cosTheta == DivTrunc(rx * 1000, r_mag)
        sinTheta == DivTrunc(ry * 1000, r_mag)
        Bx       == MulDiv(100 * dipoleMoment, 3 * cosTheta * cosTheta - 1000000, r3)
        By       == MulDiv(100 * dipoleMoment, 3 * cosTheta * sinTheta, r3)
    IN  IF r_mag * 10000 < 1      \* r_mag < 1e-6 m
        THEN [x |-> 0, y |-> 0]
        ELSE [x |-> Bx, y |-> By]

\* The grid coordinate -radius + i * step of calculateFlux and
\* calculateAverageFieldOverCoil, step = (2 * radius) / samples.
GridCoord(radius, samples, i) == DivTrunc(-radius * samples + i * 2 * radius, samples)

\* The loop body's sample point in world coordinates (the rotation by coil.angle),
\* for the grid cell (i, j).
WorldPoint(coil, samples, i, j) ==
    LET localX   == GridCoord(coil.radius, samples, i)
        localY   == GridCoord(coil.radius, samples, j)
        cosAngle == MathCos(coil.angle)
        sinAngle == MathSin(coil.angle)
    IN  [x |-> coil.position.x + MulDiv(localX, cosAngle, 1000) - MulDiv(localY, sinAngle, 1000),
         y |-> coil.position.y + MulDiv(localX, sinAngle, 1000) + MulDiv(localY, cosAngle, 1000)]

\* if (distFromCenter > coil.radius) continue, compared on the squares.
InsideCoil(coil, samples, i, j) ==
    LET localX == GridCoord(coil.radius, samples, i)
        localY == GridCoord(coil.radius, samples, j)
    IN  ~(localX * localX + localY * localY > coil.radius * coil.radius)

\* The double loop of calculateAverageFieldOverCoil from cell k = i * samples + j
\* on: the sums totalBx, totalBy and the count validSamples.
RECURSIVE FieldLoop(_, _, _, _, _, _)
FieldLoop(coil, magnetPos, dipoleMoment, samples, k, acc) ==
    IF k >= samples * samples THEN acc
    ELSE LET i == k \div samples
             j == k % samples
             B == calculateMagneticField(WorldPoint(coil, samples, i, j), magnetPos, dipoleMoment)
         IN  IF InsideCoil(coil, samples, i, j)
             THEN FieldLoop(coil, magnetPos, dipoleMoment, samples, k + 1,
                            [totalBx |-> acc.totalBx + B.x,
                             totalBy |-> acc.totalBy + B.y,
                             validSamples |-> acc.validSamples + 1])
             ELSE FieldLoop(coil, magnetPos, dipoleMoment, samples, k + 1, acc)

calculateAverageFieldOverCoil(coil, magnetPos, dipoleMoment, samples) ==
    LET acc == FieldLoop(coil, magnetPos, dipoleMoment, samples, 0,
                         [totalBx |-> 0, totalBy |-> 0, validSamples |-> 0])
    IN  IF acc.validSamples = 0
        THEN [x |-> 0, y |-> 0]
        ELSE [x |-> DivTrunc(acc.totalBx, acc.validSamples),
              y |-> DivTrunc(acc.totalBy, acc.validSamples)]

\* The double loop of calculateFlux from cell k on: totalFlux in pWb.  B . n in nT
\* times dA in cm^2 is in 0.1 pWb.
RECURSIVE FluxLoop(_, _, _, _, _, _)
FluxLoop(coil, magnetPos, dipoleMoment, samples, k, totalFlux) ==
    IF k >= samples * samples THEN totalFlux
    ELSE LET i       == k \div samples
             j       == k % samples
             normalX == MathSin(coil.angle)
             normalY == MathCos(coil.angle)
             dA      == DivTrunc(4 * coil.radius * coil.radius, samples * samples)
             B       == calculateMagneticField(WorldPoint(coil, samples, i, j), magnetPos, dipoleMoment)
             B_dot_n == MulDiv(B.x, normalX, 1000) + MulDiv(B.y, normalY, 1000)
         IN  IF InsideCoil(coil, samples, i, j)
             THEN FluxLoop(coil, magnetPos, dipoleMoment, samples, k + 1,
                           totalFlux + MulDiv(B_dot_n, dA, 10))
             ELSE FluxLoop(coil, magnetPos, dipoleMoment, samples, k + 1, totalFlux)

calculateFlux(coil, magnetPos, dipoleMoment, samples) ==
    coil.turns * FluxLoop(coil, magnetPos, dipoleMoment, samples, 0, 0)

\* Mutant of smoothValue: the weights exchanged ((1 - alpha) * current + alpha * previous).
smoothValue_Swapped(currentValue, previousSmoothed, alpha10) ==
    DivRound((10 - alpha10) * currentValue + alpha10 * previousSmoothed, 10)

\* smoothValue with alpha in tenths (0.3 is 3): alpha * current + (1 - alpha) * previous,
\* rounded to the flux grid.
smoothValue(currentValue, previousSmoothed, alpha10) ==
    DivRound(alpha10 * currentValue + (10 - alpha10) * previousSmoothed, 10)

\* The number a JavaScript expression yields once an operand is undefined.
NaN == [nan |-> TRUE]

\* Mutant of calculateFluxRateCentral: with three or more points, the symmetric
\* difference over the last and the third-last one that its doc comment describes.
calculateFluxRateCentral_Symmetric(fluxHistory, timeHistory) ==
    IF Len(fluxHistory) < 2 THEN RatZero
    ELSE IF Len(timeHistory) < 2 THEN RatZero
    ELSE IF Len(fluxHistory) > Len(timeHistory) THEN NaN
    ELSE LET n  == Len(fluxHistory)
             k  == IF n >= 3 THEN n - 2 ELSE n - 1
             dt == timeHistory[n] - timeHistory[k]
         IN  IF dt * 1000000 < 1 THEN RatZero
             ELSE Rat(fluxHistory[n] - fluxHistory[k], dt)

\* Mutant of calculateFluxRateCentral: only a gap of magnitude below 1e-9 s gives
\* 0 (Math.abs(dt) < 1e-9), so a negative gap is divided by.
calculateFluxRateCentral_AbsGap(fluxHistory, timeHistory) ==
    IF Len(fluxHistory) < 2 THEN RatZero
    ELSE IF Len(timeHistory) < 2 THEN RatZero
    ELSE IF Len(fluxHistory) > Len(timeHistory) THEN NaN
    ELSE LET n  == Len(fluxHistory)
             dt == timeHistory[n] - timeHistory[n - 1]
         IN  IF Abs(dt) * 1000000 < 1 THEN RatZero
             ELSE Rat(fluxHistory[n] - fluxHistory[n - 1], dt)

\* calculateFluxRateCentral: flux in pWb, time in ms, the rate in nWb/s.
\* dt < 1e-9 s is dt * 1000000 < 1 in ms.  Both histories are indexed with the
\* length of fluxHistory: a shorter timeHistory reads undefined, dt is NaN,
\* NaN < 1e-9 is false and the quotient is NaN.
calculateFluxRateCentral(fluxHistory, timeHistory) ==
    IF Len(fluxHistory) < 2 THEN RatZero
    ELSE IF Len(timeHistory) < 2 THEN RatZero
    ELSE IF Len(fluxHistory) > Len(timeHistory) THEN NaN
    ELSE LET n           == Len(fluxHistory)
             currentFlux == fluxHistory[n]
             currentTime == timeHistory[n]
             prevFlux    == fluxHistory[n - 1]
             prevTime    == timeHistory[n - 1]
             dt          == currentTime - prevTime
         IN  IF n >= 3
             THEN IF dt * 1000000 < 1 THEN RatZero
                  ELSE Rat(currentFlux - prevFlux, dt)
             ELSE IF dt * 1000000 < 1 THEN RatZero
                  ELSE Rat(currentFlux - prevFlux, dt)

\* calculateFluxRate, the two-sample version.
calculateFluxRate(currentFlux, previousFlux, dt) ==
    IF dt * 1000000 < 1 THEN RatZero ELSE Rat(currentFlux - previousFlux, dt)

\* Mutant of calculateEMF: the turn count applied twice (-turns * turns * fluxRate).
calculateEMF_TurnsTwice(fluxRate, turns) == RatMul(RatInt(-(turns * turns)), fluxRate)

\* Mutant of calculateEMF: the magnitude turns * |fluxRate| returned.
calculateEMF_Magnitude(fluxRate, turns) == RatMul(RatInt(turns), RatAbs(fluxRate))

\* Mutant of calculateEMF: the sign of Faraday's law dropped.
calculateEMF_NoSign(fluxRate, turns) == RatMul(RatInt(turns), fluxRate)

\* calculateEMF: -turns * fluxRate, in nV.
calculateEMF(fluxRate, turns) == RatMul(RatInt(-turns), fluxRate)

\* Mutant of calculateCurrent: the guard taken for 0 <= R < 1e-9 only, so a
\* negative resistance is divided by.
calculateCurrent_NonNegativeOnly(emf, totalResistance) ==
    IF totalResistance.n >= 0 /\ RatBelow1e9th(totalResistance) THEN RatZero
    ELSE RatDiv(emf, totalResistance)

\* calculateCurrent: emf / totalResistance in nA, 0 below 1e-9 Ohm.
calculateCurrent(emf, totalResistance) ==
    IF RatBelow1e9th(totalResistance) THEN RatZero
    ELSE RatDiv(emf, totalResistance)

\* Mutant of getCurrentDirectionAndExplanation: the direction test inverted
\* (emf > 0 ? 'CW' : 'CCW').
getCurrentDirectionAndExplanation_Swapped(fluxRate, emf) ==
    IF RatLt(RatAbs(fluxRate), RatInt(1))
    THEN [direction |-> "CW", fluxChange |-> "constant",
          explanation |-> "Flux is constant (dPhi/dt ~ 0). No induced EMF or current."]
    ELSE [direction |-> IF emf.n > 0 THEN "CW" ELSE "CCW",
          fluxChange |-> IF fluxRate.n > 0 THEN "increasing" ELSE "decreasing",
          explanation |-> ""]

\* Mutant of getCurrentDirectionAndExplanation: a flux rate of exactly the
\* threshold classified as constant too (absFluxRate <= threshold).
getCurrentDirectionAndExplanation_Inclusive(fluxRate, emf) ==
    IF RatLe(RatAbs(fluxRate), RatInt(1))
    THEN [direction |-> "CW", fluxChange |-> "constant",
          explanation |-> "Flux is constant (dPhi/dt ~ 0). No induced EMF or current."]
    ELSE [direction |-> IF emf.n > 0 THEN "CCW" ELSE "CW",
          fluxChange |-> IF fluxRate.n > 0 THEN "increasing" ELSE "decreasing",
          explanation |-> ""]

\* getCurrentDirectionAndExplanation.  The threshold 1e-9 Wb/s is 1 nWb/s.
getCurrentDirectionAndExplanation(fluxRate, emf) ==
    LET absFluxRate  == RatAbs(fluxRate)
        threshold    == RatInt(1)
        isIncreasing == fluxRate.n > 0
        fluxChange   == IF isIncreasing THEN "increasing" ELSE "decreasing"
        direction    == IF emf.n > 0 THEN "CCW" ELSE "CW"
    IN  IF RatLt(absFluxRate, threshold)
        THEN [direction |-> "CW", fluxChange |-> "constant",
              explanation |-> "Flux is constant (dPhi/dt ~ 0). No induced EMF or current."]
        ELSE [direction |-> direction, fluxChange |-> fluxChange,
              explanation |->
                IF isIncreasing
                THEN "Flux is increasing (dPhi/dt > 0). Induced EMF is negative (e = -N dPhi/dt). Current flows "
                     \o direction \o " (viewed from +x) to oppose the increase in flux (Lenz's Law)."
                ELSE "Flux is decreasing (dPhi/dt < 0). Induced EMF is positive (e = -N dPhi/dt). Current flows "
                     \o direction \o " (viewed from +x) to oppose the decrease in flux (Lenz's Law)."]

\* ---------------------------------------------------- measurement.ts

\* The CoilState literal getCurrentSnapshot passes to the flux and field functions.
CoilOf(labState) ==
    [position   |-> labState.coilPosition,
     radius     |-> labState.coilRadius,
     turns      |-> labState.coilTurns,
     angle      |-> labState.coilAngle,
     resistance |-> labState.coilResistance]

\* let smoothedFlux = flux; if (fluxSmoothingWindow > 0 && fluxHistory.length > 0) ...
SmoothedFlux(labState, flux) ==
    IF labState.fluxSmoothingWindow > 0 /\ Len(labState.fluxHistory) > 0
    THEN smoothValue(flux, labState.fluxHistory[Len(labState.fluxHistory)], 3)
    ELSE flux

\* fluxHistoryForCalc: a fresh array, the stored history followed by the new value.
FluxHistoryForCalc(labState, smoothedFlux) ==
    IF Len(labState.fluxHistory) > 0
    THEN Append(labState.fluxHistory, smoothedFlux)
    ELSE <<smoothedFlux>>

\* timeHistoryForCalc: a fresh array, the stored timestamps followed by labState.time.
TimeHistoryForCalc(labState) ==
    IF Len(labState.fluxTimeHistory) > 0
    THEN Append(labState.fluxTimeHistory, labState.time)
    ELSE <<labState.time>>

\* The fields getCurrentSnapshot derives from the flux rate: emf, current,
\* direction and fluxChange, for coilTurns turns and the total resistance.
DerivedFromRate(fluxRate, turns, totalResistance) ==
    LET emf  == calculateEMF(fluxRate, turns)
        lenz == getCurrentDirectionAndExplanation(fluxRate, emf)
    IN  [fluxRate   |-> fluxRate,
         emf        |-> emf,
         current    |-> calculateCurrent(emf, totalResistance),
         direction  |-> lenz.direction,
         fluxChange |-> lenz.fluxChange]

\* Mutant of LabStateAfterSnapshot: the new sample pushed onto the caller's arrays
\* (labState.fluxHistory.push(smoothedFlux)) instead of building new ones.
LabStateAfterSnapshot_Push(labState, dt) ==
    LET flux == calculateFlux(CoilOf(labState), labState.magnetPosition,
                              labState.magnetDipoleMoment, labState.fluxIntegrationSamples)
    IN  [labState EXCEPT !.fluxHistory = Append(@, SmoothedFlux(labState, flux)),
                         !.fluxTimeHistory = Append(@, labState.time)]

\* The object labState as getCurrentSnapshot leaves it: the function assigns to no
\* field of it, and fluxHistoryForCalc and timeHistoryForCalc are new arrays
\* ([...labState.fluxHistory, smoothedFlux]), so the stored arrays keep their entries.
LabStateAfterSnapshot(labState, dt) == labState

\* getCurrentSnapshot: the Measurement of labState and dt.
getCurrentSnapshot(labState, dt) ==
    LET flux            == calculateFlux(CoilOf(labState), labState.magnetPosition,
                                         labState.magnetDipoleMoment,
                                         labState.fluxIntegrationSamples)
        smoothedFlux    == SmoothedFlux(labState, flux)
        fluxRate        == calculateFluxRateCentral(FluxHistoryForCalc(labState, smoothedFlux),
                                                    TimeHistoryForCalc(labState))
        emf             == calculateEMF(fluxRate, labState.coilTurns)
        totalResistance == RatAdd(labState.coilResistance, labState.loadResistance)
        current         == calculateCurrent(emf, totalResistance)
        lenz            == getCurrentDirectionAndExplanation(fluxRate, emf)
        B_avg           == calculateAverageFieldOverCoil(CoilOf(labState), labState.magnetPosition,
                                                         labState.magnetDipoleMoment,
                                                         labState.fluxIntegrationSamples)
        speed           == Hypot(labState.magnetVelocity.x, labState.magnetVelocity.y)
    IN  [timestamp        |-> labState.time,
         deltaT           |-> dt,
         magnetX          |-> labState.magnetPosition.x,
         magnetY          |-> labState.magnetPosition.y,
         velocityX        |-> labState.magnetVelocity.x,
         velocityY        |-> labState.magnetVelocity.y,
         speed            |-> speed,
         turns            |-> labState.coilTurns,
         radius           |-> labState.coilRadius,
         angle            |-> labState.coilAngle,
         coilResistance   |-> labState.coilResistance,
         loadResistance   |-> labState.loadResistance,
         totalResistance  |-> totalResistance,
         magneticFieldX   |-> B_avg.x,
         magneticFieldY   |-> B_avg.y,
         magneticFieldMag |-> Hypot(B_avg.x, B_avg.y),
         flux             |-> smoothedFlux,
         fluxRate         |-> fluxRate,
         emf              |-> emf,
         current          |-> current,
         direction        |-> lenz.direction,
         fluxChange       |-> lenz.fluxChange,
         lenzExplanation  |-> lenz.explanation]

\* ------------------------------------- biotSavart.ts, measurementB.ts

\* MU_0 = 4 * Math.PI * 1e-7 T m / A in nT m / A, pi taken as 3.1416.
MU_0 == Rat(31416, 25)

\* The numbers Infinity (sign 1) and -Infinity (sign -1).
Infinity(sign) == [inf |-> sign]

\* A number that is neither NaN nor an infinity.
IsFinite(x) == "n" \in DOMAIN x

\* a * b for a number a that may be NaN or infinite and a finite b.
Times(a, b) ==
    IF a = NaN THEN NaN
    ELSE IF ~IsFinite(a)
    THEN IF b.n = 0 THEN NaN ELSE Infinity(a.inf * Sgn(b.n))
    ELSE RatMul(a, b)

\* calculateFieldSolenoidAxis for solenoidLength = 0: turns / 0 is an infinity
\* (NaN for 0 turns), halfLength and solenoidLength * 0.1 are 0.
FieldOfZeroLength(z, current, turns, useEndEffects) ==
    LET turnDensity == IF turns = 0 THEN NaN ELSE Infinity(Sgn(turns))
        idealB      == Times(turnDensity, RatMul(MU_0, current))
    IN  IF ~useEndEffects
        THEN IF z.n = 0 THEN idealB ELSE RatZero
        ELSE IF z.n # 0
             THEN IF idealB = NaN THEN NaN ELSE Infinity(-idealB.inf)
             ELSE idealB

\* Mutant of calculateFieldSolenoidAxis: the end band taken as 60% of the length
\* (minDistance < solenoidLength * 0.6), which the center lies in.
calculateFieldSolenoidAxis_WideBand(z, solenoidLength, current, turns, useEndEffects) ==
    IF solenoidLength.n = 0 THEN FieldOfZeroLength(z, current, turns, useEndEffects)
    ELSE
    LET halfLength  == RatDiv(solenoidLength, RatInt(2))
        idealB      == RatMul(RatMul(MU_0, RatDiv(RatInt(turns), solenoidLength)), current)
        left        == RatAdd(z, halfLength)
        right       == RatAdd(halfLength, RatNeg(z))
        minDistance == IF RatLe(left, right) THEN left ELSE right
        band        == RatMul(solenoidLength, Rat(6, 10))
    IN  IF ~useEndEffects
        THEN IF RatLe(RatAbs(z), halfLength) THEN idealB ELSE RatZero
        ELSE IF RatLt(minDistance, band)
             THEN RatMul(idealB, RatDiv(minDistance, band))
             ELSE idealB

\* calculateFieldSolenoidAxis: the axial field in nT; z and solenoidLength in m,
\* current in A, all rationals.
calculateFieldSolenoidAxis(z, solenoidLength, current, turns, useEndEffects) ==
    IF solenoidLength.n = 0 THEN FieldOfZeroLength(z, current, turns, useEndEffects)
    ELSE
    LET turnDensity       == RatDiv(RatInt(turns), solenoidLength)
        halfLength        == RatDiv(solenoidLength, RatInt(2))
        idealB            == RatMul(RatMul(MU_0, turnDensity), current)
        distanceFromLeft  == RatAdd(z, halfLength)
        distanceFromRight == RatAdd(halfLength, RatNeg(z))
        minDistance       == IF RatLe(distanceFromLeft, distanceFromRight)
                             THEN distanceFromLeft ELSE distanceFromRight
        band              == RatMul(solenoidLength, Rat(1, 10))
    IN  IF ~useEndEffects
        THEN IF RatLe(RatAbs(z), halfLength) THEN idealB ELSE RatZero
        ELSE IF RatLt(minDistance, band)
             THEN RatMul(idealB, RatDiv(minDistance, band))
             ELSE idealB

\* getCurrentSnapshotB: the MeasurementB of labState (_dt is not used).
getCurrentSnapshotB(labState, dt) ==
    LET current      == IF labState.resistance.n > 0
                        THEN RatDiv(labState.voltage, labState.resistance) ELSE RatZero
        turnDensity  == IF labState.solenoidLength.n > 0
                        THEN RatDiv(RatInt(labState.solenoidTurns), labState.solenoidLength)
                        ELSE RatZero
        B_magnitude  == calculateFieldSolenoidAxis(RatZero, labState.solenoidLength,
                                                   RatAbs(current), labState.solenoidTurns,
                                                   labState.useEndEffects)
    IN  [timestamp     |-> labState.time,
         deltaT        |-> 0,
         voltage       |-> labState.voltage,
         resistance    |-> labState.resistance,
         current       |-> current,
         length        |-> labState.solenoidLength,
         turns         |-> labState.solenoidTurns,
         turnDensity   |-> turnDensity,
         radius        |-> labState.solenoidRadius,
         magneticField |-> Times(B_magnitude, RatInt(labState.polarity)),
         polarity      |-> labState.polarity]

\* ------------------------------------------------ utils/export.ts
\* A text is a sequence of pieces: the characters that matter to CSV (the comma,
\* the double quote, the line feed), single characters of numbers, and stretches
\* of other characters kept whole.

Digits == <<"0", "1", "2", "3", "4", "5", "6", "7", "8", "9">>

\* The decimal digits of a natural number.
RECURSIVE NatDigits(_)
NatDigits(k) ==
    IF k < 10 THEN <<Digits[k + 1]>>
    ELSE NatDigits(k \div 10) \o <<Digits[(k % 10) + 1]>>

\* Number.prototype.toFixed(6) of the rational x: the nearest multiple of 1e-6
\* (the larger one on a tie), written with all six decimals, "-" before it for x < 0.
toFixed6(x) ==
    LET a    == RatAbs(x)
        q    == MulDiv(a.n, 1000000, a.d)
        r    == ((a.n % a.d) * 1000000) % a.d
        k    == q + (IF 2 * r >= a.d THEN 1 ELSE 0)
        frac == NatDigits(k % 1000000)
        body == NatDigits(k \div 1000000) \o <<".">>
                    \o [i \in 1..(6 - Len(frac)) |-> "0"] \o frac
    IN  IF x.n < 0 THEN <<"-">> \o body ELSE body

\* texts.join(sep)
RECURSIVE Join(_, _)
Join(texts, sep) ==
    IF Len(texts) = 0 THEN <<>>
    ELSE IF Len(texts) = 1 THEN texts[1]
    ELSE texts[1] \o sep \o Join(Tail(texts), sep)

\* Mutant of EscapeQuotes: the explanation written as it is.
EscapeQuotes_None(text) == text

\* text.replace(/"/g, '""')
RECURSIVE EscapeQuotes(_)
EscapeQuotes(text) ==
    IF Len(text) = 0 THEN <<>>
    ELSE (IF text[1] = "\"" THEN <<"\"", "\"">> ELSE <<text[1]>>) \o EscapeQuotes(Tail(text))

\* The 23 column titles of exportToCSV.
CsvHeaders ==
    <<"t (s)", "Delta t (s)", "x (m)", "y (m)", "v_x (m/s)", "v_y (m/s)", "speed (m/s)",
      "N", "R (m)", "theta (rad)", "R_coil (Ohm)", "R_load (Ohm)", "R_total (Ohm)",
      "B_x (T)", "B_y (T)", "B (T)", "Phi (Wb)", "dPhi/dt (Wb/s)", "epsilon (V)", "I (A)",
      "direction", "flux_change", "lenz_explanation">>

\* The row exportToCSV writes for the Measurement m (numbers as rationals in SI units).
CsvRow(m) ==
    <<toFixed6(m.timestamp), toFixed6(m.deltaT), toFixed6(m.magnetX), toFixed6(m.magnetY),
      toFixed6(m.velocityX), toFixed6(m.velocityY), toFixed6(m.speed),
      NatDigits(m.turns),
      toFixed6(m.radius), toFixed6(m.angle), toFixed6(m.coilResistance),
      toFixed6(m.loadResistance), toFixed6(m.totalResistance), toFixed6(m.magneticFieldX),
      toFixed6(m.magneticFieldY), toFixed6(m.magneticFieldMag), toFixed6(m.flux),
      toFixed6(m.fluxRate), toFixed6(m.emf), toFixed6(m.current),
      <<m.direction>>, <<m.fluxChange>>,
      <<"\"">> \o EscapeQuotes(m.lenzExplanation) \o <<"\"">> >>

\* exportToCSV
exportToCSV(measurements) ==
    IF Len(measurements) = 0 THEN <<>>
    ELSE Join(<<Join([i \in 1..Len(CsvHeaders) |-> <<CsvHeaders[i]>>], <<",">>)>>
                 \o [i \in 1..Len(measurements) |-> Join(CsvRow(measurements[i]), <<",">>)],
              <<"\n">>)

\* ------------------------------------------------ App (src/README.md)

\* Bounds of the model.
Samples == 2                 \* grid cells per side of the flux integration
MaxFrames == 21              \* animation frames along one run
MaxEvents == 2               \* user actions and irregular frame gaps along one run
SessionFrames == 3           \* animation frames along one short run
SessionEvents == 4           \* user actions and irregular frame gaps along one short run

\* slice(-20) of the flux and time histories.
HistoryWindow == 20

\* const samplingRate = 60 (Hz).
SamplingRate == 60

\* The wall-clock gap between two frames (ms): the nominal frame and the irregular
\* ones (a short frame, exactly 0.1 s, and a gap after the tab was inactive).
NominalGap == 20

IrregularGaps == {10, 100, 150}

\* Where the user may drop the magnet (cm).
DragPositions == {[x |-> -30, y |-> 20]}

\* What the controls may set.
CoilUpdates == {[field |-> "coilTurns", value |-> 20],
                [field |-> "loadResistance", value |-> RatInt(5)]}

MotionUpdates == {[field |-> "motionMode", value |-> "constant"],
                  [field |-> "motionMode", value |-> "sinusoidal"]}

Null == [none |-> TRUE]

VARIABLES
    labState,              \* useState<LabState>
    currentMeasurement,    \* useState<Measurement | null>
    currentMeasurementB,   \* useState<MeasurementB | null>
    previousPositionRef,   \* useRef: the magnet position of the previous tick
    now,                   \* Date.now() (ms since the page was loaded)
    lastTimeRef,           \* useRef: Date.now() of the previous frame
    framesLeft,            \* animation frames the run may still take
    eventsLeft,            \* user actions and irregular gaps the run may still take
    call,                  \* a direct call of a function of the physics core: its arguments
    result                 \* what that call returned (Null before it returns)

appVars == <<labState, currentMeasurement, currentMeasurementB, previousPositionRef,
             now, lastTimeRef, framesLeft, eventsLeft>>

vars == <<labState, currentMeasurement, currentMeasurementB, previousPositionRef,
          now, lastTimeRef, framesLeft, eventsLeft, call, result>>

INITIAL_STATE ==
    [labMode                |-> "faraday",
     magnetPosition         |-> [x |-> -100, y |-> 0],
     magnetVelocity         |-> [x |-> 0, y |-> 0],
     isDragging             |-> FALSE,
     magnetDipoleMoment     |-> 1,
     coilTurns              |-> 10,
     coilRadius             |-> 10,
     coilAngle              |-> 0,
     coilResistance         |-> RatInt(5),
     coilPosition           |-> [x |-> 0, y |-> 0],
     loadResistance         |-> RatZero,
     motionMode             |-> "manual",
     motionSpeed            |-> 100,
     motionFrequency        |-> 1,
     fluxHistory            |-> <<>>,
     fluxTimeHistory        |-> <<>>,
     fluxIntegrationSamples |-> Samples,
     fluxSmoothingWindow    |-> 5,
     voltage                |-> RatInt(5),
     resistance             |-> RatInt(5),
     solenoidTurns          |-> 100,
     solenoidLength         |-> Rat(1, 2),
     solenoidRadius         |-> Rat(1, 20),
     polarity               |-> 1,
     useEndEffects          |-> FALSE,
     time                   |-> 0,
     isRecording            |-> FALSE,
     measurements           |-> <<>>,
     measurementsB          |-> <<>>]

AppStart ==
    /\ labState = INITIAL_STATE
    /\ currentMeasurement = Null
    /\ currentMeasurementB = Null
    /\ previousPositionRef = [x |-> -100, y |-> 0]
    /\ now = 0
    /\ lastTimeRef = 0

\* A long run of frames with few user actions.
AppInit ==
    /\ AppStart
    /\ framesLeft = MaxFrames
    /\ eventsLeft = MaxEvents

\* A short run of frames with more user actions.
SessionInit ==
    /\ AppStart
    /\ framesLeft = SessionFrames
    /\ eventsLeft = SessionEvents
    /\ call = Null
    /\ result = Null

Init ==
    /\ AppInit
    /\ call = Null
    /\ result = Null

\* Mutant of SliceLast: slice(0, n), which keeps the oldest entries.
SliceLast_First(seq, n) ==
    IF Len(seq) <= n THEN seq ELSE SubSeq(seq, 1, n)

\* seq.slice(-n)
SliceLast(seq, n) ==
    IF Len(seq) <= n THEN seq ELSE SubSeq(seq, Len(seq) - n + 1, Len(seq))

\* log[log.length - 1]?.timestamp || 0
LastTimestamp(log) == IF Len(log) = 0 THEN 0 ELSE log[Len(log)].timestamp

\* Mutant of SampleDue: every frame later than the last record is logged.
SampleDue_AnyLater(time, lastTimestamp) == time - lastTimestamp > 0

\* newState.time - lastTimestamp >= 1 / samplingRate, in ms.
SampleDue(time, lastTimestamp) == SamplingRate * (time - lastTimestamp) >= 1000

\* Mutant of TickDropped: a frame of exactly 0.1 s dropped too.
TickDropped_Inclusive(dt) == dt >= 100

\* if (dt > 0.1) return
TickDropped(dt) == dt > 100

\* The motion update of updatePhysics (Mode A): the new magnet velocity and position.
MotionStep(prev, dt) ==
    IF prev.motionMode = "constant" /\ ~prev.isDragging
    THEN [velocity |-> [x |-> prev.motionSpeed, y |-> 0],
          position |-> [x |-> prev.magnetPosition.x + MulDiv(prev.magnetVelocity.x, dt, 1000),
                        y |-> prev.magnetPosition.y + MulDiv(prev.magnetVelocity.y, dt, 1000)]]
    ELSE IF prev.motionMode = "sinusoidal" /\ ~prev.isDragging
    THEN LET amplitude == prev.motionSpeed
             frequency == prev.motionFrequency
             arg       == MulDiv(6284 * frequency, prev.time, 1000)
         IN  [velocity |-> [x |-> MulDiv(MulDiv(6284 * frequency, amplitude, 1000),
                                         MathCos(arg), 1000),
                            y |-> 0],
              position |-> [x |-> MulDiv(amplitude, MathSin(arg), 1000), y |-> 0]]
    ELSE IF prev.motionMode = "manual" /\ dt > 0
    THEN [velocity |-> [x |-> DivTrunc((prev.magnetPosition.x - previousPositionRef.x) * 1000, dt),
                        y |-> DivTrunc((prev.magnetPosition.y - previousPositionRef.y) * 1000, dt)],
          position |-> prev.magnetPosition]
    ELSE [velocity |-> prev.magnetVelocity, position |-> prev.magnetPosition]

\* Mutant of AdvanceTime: the time advanced on every frame (the code before its
\* "update time ONLY when recording" fix).
AdvanceTime_Always(prev, dt) == prev.time + dt

\* if (prev.isRecording) newState.time += dt
AdvanceTime(prev, dt) == IF prev.isRecording THEN prev.time + dt ELSE prev.time

\* The Mode A branch of the updater of updatePhysics: newState before the history
\* and the log are written.
MovedStateA(prev, dt) ==
    LET m == MotionStep(prev, dt)
    IN  [prev EXCEPT !.magnetVelocity = m.velocity,
                     !.magnetPosition = m.position,
                     !.time = AdvanceTime(prev, dt)]

\* Mutant of PersistHistory: the raw integral of the frame stored instead of the
\* flux the snapshot reported.
PersistHistory_RawFlux(prev, newState, measurement) ==
    [newState EXCEPT
        !.fluxHistory = SliceLast(Append(prev.fluxHistory,
                                         calculateFlux(CoilOf(newState), newState.magnetPosition,
                                                       newState.magnetDipoleMoment,
                                                       newState.fluxIntegrationSamples)),
                                  HistoryWindow),
        !.fluxTimeHistory = SliceLast(Append(prev.fluxTimeHistory, newState.time), HistoryWindow)]

\* Mutant of PersistHistory: both histories extended only while recording.
PersistHistory_WhenRecording(prev, newState, measurement) ==
    IF prev.isRecording
    THEN [newState EXCEPT
            !.fluxHistory = SliceLast(Append(prev.fluxHistory, measurement.flux), HistoryWindow),
            !.fluxTimeHistory = SliceLast(Append(prev.fluxTimeHistory, newState.time), HistoryWindow)]
    ELSE newState

\* Mutant of PersistHistory: the timestamp is stored only while recording.
PersistHistory_TimeWhenRecording(prev, newState, measurement) ==
    [newState EXCEPT
        !.fluxHistory = SliceLast(Append(prev.fluxHistory, measurement.flux), HistoryWindow),
        !.fluxTimeHistory = IF prev.isRecording
                            THEN SliceLast(Append(prev.fluxTimeHistory, newState.time), HistoryWindow)
                            ELSE prev.fluxTimeHistory]

\* newState.fluxHistory = [...prev.fluxHistory, measurement.flux].slice(-20), and the
\* same for fluxTimeHistory.  newState = { ...prev } shares its arrays with prev, so
\* `prev` here is the state as getCurrentSnapshot(newState, dt) left it.
PersistHistory(prev, newState, measurement) ==
    [newState EXCEPT
        !.fluxHistory = SliceLast(Append(prev.fluxHistory, measurement.flux), HistoryWindow),
        !.fluxTimeHistory = SliceLast(Append(prev.fluxTimeHistory, newState.time), HistoryWindow)]

\* Mutant of RecordA: the log bounded like the histories, here to its last two
\* records ([...prev.measurements, measurement].slice(-2)).
RecordA_Sliding(prev, newState, measurement) ==
    IF prev.isRecording /\ SampleDue(newState.time, LastTimestamp(prev.measurements))
    THEN [newState EXCEPT !.measurements = SliceLast(Append(prev.measurements, measurement), 2)]
    ELSE newState

\* if (prev.isRecording) { ... newState.measurements = [...prev.measurements, measurement] }
RecordA(prev, newState, measurement) ==
    IF prev.isRecording /\ SampleDue(newState.time, LastTimestamp(prev.measurements))
    THEN [newState EXCEPT !.measurements = Append(prev.measurements, measurement)]
    ELSE newState

RecordB(prev, newState, measurementB) ==
    IF prev.isRecording /\ SampleDue(newState.time, LastTimestamp(prev.measurementsB))
    THEN [newState EXCEPT !.measurementsB = Append(prev.measurementsB, measurementB)]
    ELSE newState

\* updatePhysics, run by the animation frame that fires `gap` ms after the last one.
Frame(gap) ==
    LET dt   == (now + gap) - lastTimeRef
        prev == labState
    IN  /\ now' = now + gap
        /\ lastTimeRef' = now + gap
        /\ framesLeft > 0
        /\ framesLeft' = framesLeft - 1
        /\ IF TickDropped(dt)
           THEN UNCHANGED <<labState, currentMeasurement, currentMeasurementB,
                            previousPositionRef>>
           ELSE IF prev.labMode = "faraday"
           THEN \E moved \in {MovedStateA(prev, dt)} :
                \E measurement \in {getCurrentSnapshot(moved, dt)} :
                \E after \in {LabStateAfterSnapshot(moved, dt)} :
                    /\ previousPositionRef' = after.magnetPosition
                    /\ labState' = RecordA(prev, PersistHistory(after, after, measurement),
                                           measurement)
                    /\ currentMeasurement' = measurement
                    /\ currentMeasurementB' = Null
           ELSE \E newState \in {[prev EXCEPT !.time = AdvanceTime(prev, dt)]} :
                \E measurementB \in {getCurrentSnapshotB(newState, dt)} :
                    /\ labState' = RecordB(prev, newState, measurementB)
                    /\ currentMeasurementB' = measurementB
                    /\ currentMeasurement' = Null
                    /\ UNCHANGED previousPositionRef

updatePhysics ==
    \/ /\ Frame(NominalGap)
       /\ UNCHANGED eventsLeft
    \/ /\ eventsLeft > 0
       /\ eventsLeft' = eventsLeft - 1
       /\ \E gap \in IrregularGaps : Frame(gap)

UserActs ==
    /\ eventsLeft > 0
    /\ eventsLeft' = eventsLeft - 1
    /\ UNCHANGED <<now, framesLeft>>

handleMagnetDrag ==
    /\ UserActs
    /\ labState.labMode = "faraday"
    /\ \E pos \in DragPositions :
          labState' = [labState EXCEPT !.magnetPosition = pos, !.isDragging = TRUE]
    /\ UNCHANGED <<currentMeasurement, currentMeasurementB, previousPositionRef, lastTimeRef>>

handleMagnetDragEnd ==
    /\ UserActs
    /\ labState.isDragging
    /\ labState' = [labState EXCEPT !.isDragging = FALSE]
    /\ UNCHANGED <<currentMeasurement, currentMeasurementB, previousPositionRef, lastTimeRef>>

handleUpdateCoil ==
    /\ UserActs
    /\ \E u \in CoilUpdates :
          /\ labState[u.field] # u.value
          /\ labState' = [labState EXCEPT ![u.field] = u.value]
    /\ UNCHANGED <<currentMeasurement, currentMeasurementB, previousPositionRef, lastTimeRef>>

handleUpdateMotion ==
    /\ UserActs
    /\ \E u \in MotionUpdates :
          /\ labState[u.field] # u.value
          /\ labState' = [labState EXCEPT ![u.field] = u.value]
    /\ UNCHANGED <<currentMeasurement, currentMeasurementB, previousPositionRef, lastTimeRef>>

\* Mutant of handleStartRecording: the time reset to 0 but the flux and time
\* histories kept.
handleStartRecording_KeepHistory ==
    /\ UserActs
    /\ ~labState.isRecording
    /\ labState' = [labState EXCEPT
          !.isRecording = TRUE,
          !.measurements = IF labState.labMode = "faraday" THEN <<>> ELSE @,
          !.measurementsB = IF labState.labMode = "currentToField" THEN <<>> ELSE @,
          !.time = 0]
    /\ lastTimeRef' = now
    /\ UNCHANGED <<currentMeasurement, currentMeasurementB, previousPositionRef>>

\* Mutant of handleStartRecording: the logs of both modes emptied.
handleStartRecording_ClearBoth ==
    /\ UserActs
    /\ ~labState.isRecording
    /\ labState' = [labState EXCEPT
          !.isRecording = TRUE,
          !.measurements = <<>>,
          !.measurementsB = <<>>,
          !.time = 0,
          !.fluxHistory = <<>>,
          !.fluxTimeHistory = <<>>]
    /\ lastTimeRef' = now
    /\ UNCHANGED <<currentMeasurement, currentMeasurementB, previousPositionRef>>

\* The button shows Start Recording only while isRecording is false.
handleStartRecording ==
    /\ UserActs
    /\ ~labState.isRecording
    /\ labState' = [labState EXCEPT
          !.isRecording = TRUE,
          !.measurements = IF labState.labMode = "faraday" THEN <<>> ELSE @,
          !.measurementsB = IF labState.labMode = "currentToField" THEN <<>> ELSE @,
          !.time = 0,
          !.fluxHistory = <<>>,
          !.fluxTimeHistory = <<>>]
    /\ lastTimeRef' = now
    /\ UNCHANGED <<currentMeasurement, currentMeasurementB, previousPositionRef>>

handleStopRecording ==
    /\ UserActs
    /\ labState.isRecording
    /\ labState' = [labState EXCEPT !.isRecording = FALSE]
    /\ UNCHANGED <<currentMeasurement, currentMeasurementB, previousPositionRef, lastTimeRef>>

handleAddSnapshot ==
    /\ UserActs
    /\ \/ /\ labState.labMode = "faraday"
          /\ currentMeasurement # Null
          /\ labState' = [labState EXCEPT !.measurements = Append(@, currentMeasurement)]
       \/ /\ labState.labMode = "currentToField"
          /\ currentMeasurementB # Null
          /\ labState' = [labState EXCEPT !.measurementsB = Append(@, currentMeasurementB)]
    /\ UNCHANGED <<currentMeasurement, currentMeasurementB, previousPositionRef, lastTimeRef>>

handleClearData ==
    /\ UserActs
    /\ labState' = [labState EXCEPT
          !.measurements = IF labState.labMode = "faraday" THEN <<>> ELSE @,
          !.measurementsB = IF labState.labMode = "currentToField" THEN <<>> ELSE @]
    /\ UNCHANGED <<currentMeasurement, currentMeasurementB, previousPositionRef, lastTimeRef>>

\* The mode selector calls the handler with the mode that is not the current one.
handleModeChange ==
    /\ UserActs
    /\ \E mode \in {"faraday", "currentToField"} :
          /\ mode # labState.labMode
          /\ labState' = [labState EXCEPT !.labMode = mode, !.time = 0, !.isRecording = FALSE]
    /\ UNCHANGED <<currentMeasurement, currentMeasurementB, previousPositionRef, lastTimeRef>>

Next ==
    \/ updatePhysics /\ UNCHANGED <<call, result>>
    \/ handleMagnetDrag /\ UNCHANGED <<call, result>>
    \/ handleMagnetDragEnd /\ UNCHANGED <<call, result>>
    \/ handleUpdateCoil /\ UNCHANGED <<call, result>>
    \/ handleUpdateMotion /\ UNCHANGED <<call, result>>
    \/ handleStartRecording /\ UNCHANGED <<call, result>>
    \/ handleStopRecording /\ UNCHANGED <<call, result>>
    \/ handleAddSnapshot /\ UNCHANGED <<call, result>>
    \/ handleClearData /\ UNCHANGED <<call, result>>
    \/ handleModeChange /\ UNCHANGED <<call, result>>

\* The application: the animation frames and the user's actions, from INITIAL_STATE.
Spec == Init /\ [][Next]_vars

\* The same application over a short run of frames with more user actions.
SpecSession == SessionInit /\ [][Next]_vars

\* ------------------------------------- direct calls of the physics core

\* Stored flux histories (pWb) with their timestamps (ms) a call may be given:
\* empty, one entry, rising and falling flux, a zero gap and a gap that goes back
\* (the state owner resets time to 0 and keeps the history), and a flux far below
\* the one of the magnet positions called with (the magnet was closer before).
HistoryInputs ==
    {[flux |-> <<>>, time |-> <<>>],
     [flux |-> <<4000>>, time |-> <<0>>],
     [flux |-> <<4000, 4100>>, time |-> <<0, 20>>],
     [flux |-> <<4000, 4100, 4300>>, time |-> <<0, 20, 40>>],
     [flux |-> <<-2700, -2750>>, time |-> <<20, 40>>],
     [flux |-> <<4000, 4100>>, time |-> <<40, 60>>],
     [flux |-> <<4000, 4100>>, time |-> <<300, 400>>],
     [flux |-> <<-5000000, -4000000>>, time |-> <<0, 20>>]}

\* The lab states getCurrentSnapshot is called with directly.
SnapshotStates ==
    {[INITIAL_STATE EXCEPT !.magnetPosition = pos,
                           !.magnetVelocity = [x |-> 100, y |-> 0],
                           !.coilTurns = turns,
                           !.coilResistance = rc,
                           !.loadResistance = rl,
                           !.fluxSmoothingWindow = w,
                           !.fluxHistory = h.flux,
                           !.fluxTimeHistory = h.time,
                           !.time = 60] :
        pos \in {[x |-> -30, y |-> 20], [x |-> -28, y |-> 20]},
        turns \in {1, 10, 20},
        rc \in {RatZero, RatInt(5), RatInt(-1)},
        rl \in {RatZero, Rat(1, 10)},
        w \in {0, 5},
        h \in HistoryInputs}

SnapshotCalls ==
    {[fn |-> "getCurrentSnapshot", labState |-> st, dt |-> 20] : st \in SnapshotStates}

\* The flux and time histories calculateFluxRateCentral is called with directly:
\* every length from 0 to 4, equal and unequal lengths, older entries that differ
\* while the last two agree, and a last time gap that is zero or negative.
FluxInputs ==
    {<<>>, <<4000>>, <<4000, 4100>>, <<4100, 4000>>, <<4000, 4100, 4300>>,
     <<3000, 4100, 4300>>, <<1000, 2000, 4100, 4300>>}

TimeInputs ==
    {<<>>, <<0>>, <<0, 20>>, <<20, 20>>, <<40, 20>>, <<0, 20, 40>>, <<10, 20, 40>>,
     <<0, 20, 20>>, <<0, 40, 20>>, <<0, 10, 20, 40>>, <<0, 20, 40, 60>>}

RateCalls ==
    {[fn |-> "calculateFluxRateCentral", fluxHistory |-> f, timeHistory |-> t] :
        f \in FluxInputs, t \in TimeInputs}

\* The EMFs (nV) and total resistances (Ohm) calculateCurrent is called with
\* directly: zero, negative, below 1e-9, exactly 1e-9 and ordinary resistances.
EmfInputs == {RatZero, Rat(1, 1000), Rat(-1, 1000), RatInt(-50), Rat(125, 2)}

ResistanceInputs ==
    {RatZero, RatInt(-5), Rat(-1, 10), Rat(1, 2000000000), Rat(1, 1000000000),
     Rat(1, 10), RatInt(5)}

\* The quotient by exactly 1e-9 Ohm is formed for the EMFs it fits for.
CurrentCalls ==
    {c \in [fn : {"calculateCurrent"}, emf : EmfInputs, totalResistance : ResistanceInputs] :
        c.totalResistance = Rat(1, 1000000000) => Abs(c.emf.n) <= 1}

\* The flux rates (nWb/s) getCurrentDirectionAndExplanation is called with
\* directly: zero, below the threshold of 1 nWb/s, exactly at it, and beyond it,
\* of either sign; each with EMFs of either sign and zero, whatever the rate.
FluxRateInputs ==
    {RatZero, Rat(1, 2), Rat(-1, 2), Rat(999, 1000), RatInt(1), RatInt(-1),
     Rat(1001, 1000), RatInt(5), Rat(-15, 2)}

DirectionCalls ==
    [fn : {"getCurrentDirectionAndExplanation"}, fluxRate : FluxRateInputs, emf : EmfInputs]

\* Turn counts and total resistances for the steps that follow the flux rate.
TurnInputs == {1, 10, 20}

ReversalCalls ==
    [fn : {"reversal"}, fluxRate : FluxRateInputs, turns : TurnInputs,
     totalResistance : {RatZero, Rat(1, 10), RatInt(5)}]

EmfCalls ==
    [fn : {"calculateEMF"}, fluxRate : FluxRateInputs, turns : TurnInputs \cup {0, 3, 100}]

\* Runs of the Mode A pipeline while recording, the magnet moving at constant
\* speed past the coil: the start position, the turn count N, smoothing on or off
\* and the frame gap vary.
RunTicksCount == 4

TurnsRunCalls ==
    {[fn |-> "turnsRun", dt |-> dt,
      labState |-> [INITIAL_STATE EXCEPT !.motionMode = "constant",
                                         !.isRecording = TRUE,
                                         !.magnetPosition = pos,
                                         !.coilTurns = turns,
                                         !.fluxSmoothingWindow = w]] :
        pos \in {[x |-> -30, y |-> 20], [x |-> -100, y |-> 0]},
        turns \in {1, 10},
        w \in {0, 5},
        dt \in {10, 20}}

\* The lab states getCurrentSnapshotB is called with directly: voltages and
\* resistances of either sign and zero, lengths that are positive, zero and
\* negative, both polarities, the end-effect formula on and off.
SnapshotBStates ==
    {[INITIAL_STATE EXCEPT !.labMode = "currentToField",
                           !.voltage = v,
                           !.resistance = r,
                           !.solenoidTurns = turns,
                           !.solenoidLength = len,
                           !.polarity = pol,
                           !.useEndEffects = e,
                           !.time = 60] :
        v \in {RatInt(5), RatZero, RatInt(-5)},
        r \in {RatInt(5), Rat(1, 10), RatZero, RatInt(-5)},
        turns \in {10, 100},
        len \in {Rat(1, 2), RatInt(2), RatZero, Rat(-1, 2)},
        pol \in {1, -1},
        e \in BOOLEAN}

SnapshotBCalls ==
    {[fn |-> "getCurrentSnapshotB", labState |-> st, dt |-> 20] : st \in SnapshotBStates}

\* The Measurement records exportToCSV is called with: SI values as rationals,
\* among them values below 1e-6, negative ones and ties of the rounding, and
\* explanations with commas, with double quotes and with both.
ExportRecord(t, flux, emf, explanation) ==
    [timestamp |-> t, deltaT |-> Rat(1, 60), magnetX |-> Rat(-3, 10), magnetY |-> Rat(1, 5),
     velocityX |-> RatInt(1), velocityY |-> RatZero, speed |-> RatInt(1),
     turns |-> 10, radius |-> Rat(1, 10), angle |-> Rat(157, 100),
     coilResistance |-> RatInt(5), loadResistance |-> Rat(1, 3),
     totalResistance |-> Rat(16, 3),
     magneticFieldX |-> Rat(-1, 2000), magneticFieldY |-> Rat(3, 2000),
     magneticFieldMag |-> Rat(1, 625),
     flux |-> flux, fluxRate |-> RatNeg(emf), emf |-> emf, current |-> RatDiv(emf, Rat(16, 3)),
     direction |-> IF emf.n > 0 THEN "CCW" ELSE "CW",
     fluxChange |-> IF emf.n > 0 THEN "decreasing" ELSE "increasing",
     lenzExplanation |-> explanation]

ExportRecords ==
    {ExportRecord(Rat(1, 60), Rat(1, 2000), Rat(-5, 2),
                  <<"Flux is increasing (dPhi/dt > 0). Current flows CW (Lenz's Law).">>),
     ExportRecord(Rat(121, 10), Rat(-1, 2000), Rat(7, 16),
                  <<"Flux is decreasing", ",", " so the EMF is positive", ",", " current CCW">>),
     ExportRecord(RatInt(3), Rat(3, 2000), Rat(-1, 2000),
                  <<"Current flows ", "\"", "CW", "\"", " (viewed from +x)">>),
     ExportRecord(RatZero, RatZero, Rat(1, 2000),
                  <<"\"", "CCW", "\"", ",", " he said", ",", "\"", "\"">>)}

ExportLogs ==
    {<<>>} \cup {<<a>> : a \in ExportRecords}
           \cup {<<a, b>> : a \in ExportRecords, b \in ExportRecords}
           \cup {<<a, b, a>> : a \in ExportRecords, b \in ExportRecords}

ExportCalls == {[fn |-> "exportToCSV", measurements |-> log] : log \in ExportLogs}

\* The arguments calculateFieldSolenoidAxis is called with directly: positions at
\* the center, inside the end band, exactly at an end and beyond the ends of a
\* solenoid of positive length, currents and turn counts that are zero or positive.
FieldAxisCalls ==
    [fn : {"calculateFieldSolenoidAxis"},
     z : {RatZero, Rat(1, 5), Rat(-9, 40), Rat(1, 4), Rat(-1, 4), Rat(3, 10), Rat(-3, 2)},
     solenoidLength : {Rat(1, 2), RatInt(2)},
     current : {RatZero, RatInt(1), Rat(5, 2)},
     turns : {0, 10, 100},
     useEndEffects : BOOLEAN]

\* The lab states getCurrentSnapshotB is called with twice, the end-effect toggle
\* off and on.
EndEffectCalls ==
    {[fn |-> "endEffectToggle", labState |-> st, dt |-> 20] :
        st \in {s \in SnapshotBStates : ~s.useEndEffects}}

CallInputs ==
    EndEffectCalls \cup
    FieldAxisCalls \cup
    ExportCalls \cup
    SnapshotBCalls \cup
    TurnsRunCalls \cup
    SnapshotCalls \cup RateCalls \cup CurrentCalls \cup DirectionCalls \cup ReversalCalls
        \cup EmfCalls

\* getCurrentSnapshot(call.labState, call.dt) is called and returns.
CallSnapshot ==
    /\ call \in SnapshotCalls
    /\ result = Null
    /\ result' = [measurement |-> getCurrentSnapshot(call.labState, call.dt),
                  labState    |-> LabStateAfterSnapshot(call.labState, call.dt)]
    /\ UNCHANGED call

\* calculateFluxRateCentral(call.fluxHistory, call.timeHistory) is called and
\* returns, and so is calculateFluxRate on the last two samples where both
\* histories have them.
CallFluxRate ==
    /\ call \in RateCalls
    /\ result = Null
    /\ result' =
          LET f == call.fluxHistory
              t == call.timeHistory
              n == Len(f)
          IN  [central |-> calculateFluxRateCentral(f, t),
               simple  |-> IF n >= 2 /\ Len(t) >= n
                           THEN calculateFluxRate(f[n], f[n - 1], t[n] - t[n - 1])
                           ELSE Null]
    /\ UNCHANGED call

\* calculateCurrent(call.emf, call.totalResistance) is called and returns.
CallCurrent ==
    /\ call \in CurrentCalls
    /\ result = Null
    /\ result' = [current |-> calculateCurrent(call.emf, call.totalResistance)]
    /\ UNCHANGED call

\* getCurrentDirectionAndExplanation(call.fluxRate, call.emf) is called and returns.
CallDirection ==
    /\ call \in DirectionCalls
    /\ result = Null
    /\ result' = getCurrentDirectionAndExplanation(call.fluxRate, call.emf)
    /\ UNCHANGED call

\* The EMF, current and direction steps are run on call.fluxRate and on its
\* negation, with the same turns and total resistance.
CallReversal ==
    /\ call \in ReversalCalls
    /\ result = Null
    /\ result' = [forward  |-> DerivedFromRate(call.fluxRate, call.turns, call.totalResistance),
                  reversed |-> DerivedFromRate(RatNeg(call.fluxRate), call.turns,
                                               call.totalResistance)]
    /\ UNCHANGED call

\* calculateEMF is called with call.fluxRate for call.turns turns and for twice
\* as many.
CallEMF ==
    /\ call \in EmfCalls
    /\ result = Null
    /\ result' = [single  |-> calculateEMF(call.fluxRate, call.turns),
                  doubled |-> calculateEMF(call.fluxRate, 2 * call.turns)]
    /\ UNCHANGED call

\* The two runs before their first frame: call.labState, and the state that
\* differs from it only in having twice the coil turns.
TurnsRunStart ==
    [single   |-> call.labState,
     doubled  |-> [call.labState EXCEPT !.coilTurns = 2 * @],
     singleSnapshots  |-> <<>>,
     doubledSnapshots |-> <<>>]

\* One more processed Mode A frame of updatePhysics in each of the two runs, with
\* the same dt; the snapshot of each frame is kept.
CallTurnsRun ==
    /\ call \in TurnsRunCalls
    /\ \E runs \in {IF result = Null THEN TurnsRunStart ELSE result} :
         /\ Len(runs.singleSnapshots) < RunTicksCount
         /\ \E moved1 \in {MovedStateA(runs.single, call.dt)} :
            \E moved2 \in {MovedStateA(runs.doubled, call.dt)} :
            \E m1 \in {getCurrentSnapshot(moved1, call.dt)} :
            \E m2 \in {getCurrentSnapshot(moved2, call.dt)} :
            \E after1 \in {LabStateAfterSnapshot(moved1, call.dt)} :
            \E after2 \in {LabStateAfterSnapshot(moved2, call.dt)} :
                result' =
                    [single   |-> RecordA(runs.single, PersistHistory(after1, after1, m1), m1),
                     doubled  |-> RecordA(runs.doubled, PersistHistory(after2, after2, m2), m2),
                     singleSnapshots  |-> Append(runs.singleSnapshots, m1),
                     doubledSnapshots |-> Append(runs.doubledSnapshots, m2)]
    /\ UNCHANGED call

\* getCurrentSnapshotB is called on call.labState and on the state that differs
\* from it only in the sign of polarity.
CallSnapshotB ==
    /\ call \in SnapshotBCalls
    /\ result = Null
    /\ result' = [measurement |-> getCurrentSnapshotB(call.labState, call.dt),
                  flipped     |-> getCurrentSnapshotB([call.labState EXCEPT !.polarity = -@],
                                                      call.dt)]
    /\ UNCHANGED call

\* exportToCSV(call.measurements) is called and returns the file's text.
CallExportCSV ==
    /\ call \in ExportCalls
    /\ result = Null
    /\ result' = [csv |-> exportToCSV(call.measurements)]
    /\ UNCHANGED call

\* calculateFieldSolenoidAxis is called with the arguments of call and returns.
CallFieldAxis ==
    /\ call \in FieldAxisCalls
    /\ result = Null
    /\ result' = [field |-> calculateFieldSolenoidAxis(call.z, call.solenoidLength, call.current,
                                                       call.turns, call.useEndEffects)]
    /\ UNCHANGED call

\* getCurrentSnapshotB is called on call.labState with useEndEffects false and on
\* the state that differs from it only in useEndEffects being true.
CallEndEffects ==
    /\ call \in EndEffectCalls
    /\ result = Null
    /\ result' = [off |-> getCurrentSnapshotB([call.labState EXCEPT !.useEndEffects = FALSE],
                                              call.dt),
                  on  |-> getCurrentSnapshotB([call.labState EXCEPT !.useEndEffects = TRUE],
                                              call.dt)]
    /\ UNCHANGED call

PureInit ==
    /\ AppInit
    /\ call \in CallInputs
    /\ result = Null

PureNext ==
    \/ CallSnapshot /\ UNCHANGED appVars
    \/ CallFluxRate /\ UNCHANGED appVars
    \/ CallCurrent /\ UNCHANGED appVars
    \/ CallDirection /\ UNCHANGED appVars
    \/ CallReversal /\ UNCHANGED appVars
    \/ CallEMF /\ UNCHANGED appVars
    \/ CallTurnsRun /\ UNCHANGED appVars
    \/ CallSnapshotB /\ UNCHANGED appVars
    \/ CallExportCSV /\ UNCHANGED appVars
    \/ CallFieldAxis /\ UNCHANGED appVars
    \/ CallEndEffects /\ UNCHANGED appVars

\* The functions of the physics core, each called once on an input of CallInputs.
SpecPure == PureInit /\ [][PureNext]_vars

\* --------------------------------------------------------------- claims

\* x >= 1e-9 for a resistance x in Ohm.
AtLeast1e9th(x) == ~(x.n <= 0) /\ ~(x.n <= 2 /\ x.n * 1000000000 < x.d)

\* The relations the fields of one Measurement record m keep among themselves.
ConsistentRecord(m) ==
    /\ m.totalResistance = RatAdd(m.coilResistance, m.loadResistance)
    /\ RatAdd(m.emf, RatMul(RatInt(m.turns), m.fluxRate)) = RatZero
    /\ IF AtLeast1e9th(m.totalResistance)
       THEN RatMul(m.current, m.totalResistance) = m.emf
       ELSE m.current = RatZero

\* C2: every Measurement returned by getCurrentSnapshot has totalResistance =
\* coilResistance + loadResistance, emf = -(turns x fluxRate), and current =
\* emf / totalResistance when totalResistance >= 1e-9 and 0 otherwise, all read
\* from the fields of that same record.
C2_RecordConsistent ==
    (call \in SnapshotCalls /\ result # Null) => ConsistentRecord(result.measurement)

\* C2 witness: a returned record with a non-zero EMF and current, and one whose
\* total resistance is below 1e-9 while its EMF is not zero.
C2_Witness ==
    /\ call \in SnapshotCalls
    /\ result # Null
    /\ result.measurement.emf # RatZero
    /\ ~AtLeast1e9th(result.measurement.totalResistance)
    /\ result.measurement.current = RatZero

\* A step is an animation frame; its dt; whether updatePhysics processed it.
IsFrame == framesLeft' < framesLeft

FrameDt == now' - lastTimeRef

IsProcessedFrame == IsFrame /\ FrameDt <= 100

\* C3: after any sequence of frames and user actions fluxHistory and fluxTimeHistory
\* hold at most 20 entries each, and a processed Mode A frame that finds them full
\* drops exactly the oldest entry, keeps the other 19 in order and puts the new
\* flux and time last.
C3_SlidingWindow ==
    [][/\ Len(labState'.fluxHistory) <= 20
       /\ Len(labState'.fluxTimeHistory) <= 20
       /\ (IsProcessedFrame /\ labState.labMode = "faraday" /\ Len(labState.fluxHistory) = 20)
          => /\ labState'.fluxHistory =
                   Append(Tail(labState.fluxHistory), currentMeasurement'.flux)
             /\ labState'.fluxTimeHistory =
                   Append(Tail(labState.fluxTimeHistory), labState'.time)]_vars

\* C3 witness: 21 recorded frames after Start Recording; the entry of the first
\* frame (time 20) has been dropped and the window holds the times 40 .. 420.
C3_Witness ==
    /\ labState.isRecording
    /\ Len(labState.fluxHistory) = 20
    /\ labState.fluxTimeHistory[1] = 40
    /\ labState.fluxTimeHistory[20] = 420

\* C4: in every reachable state of the App fluxHistory and fluxTimeHistory have
\* the same length.
C4_SameLength == Len(labState.fluxHistory) = Len(labState.fluxTimeHistory)

\* C4 witness: two entries stored by frames in Mode A, then Mode B entered and a
\* snapshot of its measurement added to its log.
C4_Witness ==
    /\ labState.labMode = "currentToField"
    /\ ~labState.isRecording
    /\ Len(labState.fluxHistory) = 2
    /\ Len(labState.measurementsB) >= 1

\* C5: in every reachable state with isRecording true, fluxTimeHistory is
\* non-decreasing from its oldest entry to its newest (the frame gaps of the model
\* are positive, as wall-clock deltas are taken to be).
C5_RecordingTimesOrdered ==
    labState.isRecording =>
        \A i \in 1..Len(labState.fluxTimeHistory) :
            \A j \in i..Len(labState.fluxTimeHistory) :
                labState.fluxTimeHistory[i] <= labState.fluxTimeHistory[j]

\* C5 witness: a second recording, started after a first one was stopped, with
\* frames 20 and 10 ms apart stored.
C5_Witness ==
    /\ labState.isRecording
    /\ eventsLeft = 0
    /\ labState.fluxTimeHistory = <<20, 30>>

\* C6: a processed frame leaves the simulated time unchanged while isRecording is
\* false, in Mode A and in Mode B, and advances it by exactly that frame's dt
\* while isRecording is true.
C6_TimeOnlyWhenRecording ==
    [][IsProcessedFrame =>
          labState'.time = IF labState.isRecording THEN labState.time + FrameDt
                           ELSE labState.time]_vars

\* C6 witness: a frame recorded at time 20, then Stop Recording and a paused frame:
\* the paused frame stored the unchanged time.
C6_Witness ==
    /\ ~labState.isRecording
    /\ labState.time = 20
    /\ labState.fluxTimeHistory = <<20, 20>>

\* C7 as claimed: a processed frame while isRecording is false leaves the flux
\* history and the timestamp history unchanged.
C7_PausedHistoryUnchanged ==
    [][(IsProcessedFrame /\ ~labState.isRecording)
          => /\ labState'.fluxHistory = labState.fluxHistory
             /\ labState'.fluxTimeHistory = labState.fluxTimeHistory]_vars

\* C7 amended: a processed frame while isRecording is false leaves both histories
\* unchanged in Mode B; in Mode A it still appends one entry to each, the new
\* smoothed flux and the unchanged time, keeping the last 20.
C7_PausedHistoryAmended ==
    [][(IsProcessedFrame /\ ~labState.isRecording)
          => IF labState.labMode = "faraday"
             THEN /\ labState'.time = labState.time
                  /\ labState'.fluxHistory =
                        SubSeq(Append(labState.fluxHistory, currentMeasurement'.flux),
                               Max(1, Len(labState.fluxHistory) - 18),
                               Len(labState.fluxHistory) + 1)
                  /\ labState'.fluxTimeHistory =
                        SubSeq(Append(labState.fluxTimeHistory, labState.time),
                               Max(1, Len(labState.fluxTimeHistory) - 18),
                               Len(labState.fluxTimeHistory) + 1)
             ELSE /\ labState'.fluxHistory = labState.fluxHistory
                  /\ labState'.fluxTimeHistory = labState.fluxTimeHistory]_vars

\* C7 witness: 21 paused frames in Mode A have filled the window of 20 entries with
\* the unchanged time 0.
C7_Witness ==
    /\ ~labState.isRecording
    /\ labState.labMode = "faraday"
    /\ labState.time = 0
    /\ Len(labState.fluxTimeHistory) = 20
    /\ labState.fluxTimeHistory[20] = 0
    /\ framesLeft = MaxFrames - 21

\* C8: a frame whose wall-clock delta exceeds 0.1 s is dropped: it leaves the lab
\* state (magnet, time, histories, both logs), the position reference and the
\* current measurements unchanged; a frame with delta 0.1 s or less is processed
\* and produces the current measurement of its mode; either way the wall-clock
\* reference is reset, so the next delta is measured from this frame.
C8_DroppedFrame ==
    [][IsFrame =>
          /\ lastTimeRef' = now'
          /\ IF FrameDt > 100
             THEN UNCHANGED <<labState, currentMeasurement, currentMeasurementB,
                              previousPositionRef>>
             ELSE IF labState.labMode = "faraday"
                  THEN /\ currentMeasurement' # Null
                       /\ currentMeasurement'.deltaT = FrameDt
                       /\ currentMeasurementB' = Null
                  ELSE /\ currentMeasurementB' # Null
                       /\ currentMeasurement' = Null]_vars

\* C8 witness: a frame after 150 ms was dropped and the next one, exactly 100 ms
\* later, was processed with dt = 100 ms.
C8_Witness ==
    /\ now = 250
    /\ framesLeft = MaxFrames - 2
    /\ currentMeasurement # Null
    /\ currentMeasurement.deltaT = 100
    /\ Len(labState.fluxHistory) = 1

\* C9: getCurrentSnapshot leaves the lab state it is given as it was, its flux and
\* time histories included, and the flux rate it returns is the rate over a copy
\* of the histories extended by the new smoothed flux and the current time: 0 with
\* no stored entry or a gap under 1e-9 s, else the difference quotient of the last
\* stored entry and the new one.
C9_SnapshotReadsOnly ==
    (call \in SnapshotCalls /\ result # Null) =>
        LET m   == result.measurement
            f   == Append(call.labState.fluxHistory, m.flux)
            t   == Append(call.labState.fluxTimeHistory, call.labState.time)
            n   == Len(f)
        IN  /\ result.labState.fluxHistory = call.labState.fluxHistory
            /\ result.labState.fluxTimeHistory = call.labState.fluxTimeHistory
            /\ result.labState = call.labState
            /\ IF n < 2 \/ (t[n] - t[n - 1]) * 1000000 < 1
               THEN m.fluxRate = RatZero
               ELSE /\ m.fluxRate.n * (t[n] - t[n - 1]) = (f[n] - f[n - 1]) * m.fluxRate.d
                    /\ m.fluxRate.d > 0

\* C9 witness: a call on a state with three stored entries that returned a
\* non-zero flux rate.
C9_Witness ==
    /\ call \in SnapshotCalls
    /\ result # Null
    /\ Len(call.labState.fluxHistory) = 3
    /\ result.measurement.fluxRate # RatZero
    /\ result.measurement.flux # call.labState.fluxHistory[3]

C11_NoCurrentWithoutResistance ==
    /\ (call \in CurrentCalls /\ result # Null /\ ~AtLeast1e9th(call.totalResistance))
          => result.current = RatZero
    /\ (call \in SnapshotCalls /\ result # Null
        /\ ~AtLeast1e9th(RatAdd(call.labState.coilResistance, call.labState.loadResistance)))
          => result.measurement.current = RatZero

\* C11 witness: calculateCurrent has returned 0 for a non-zero EMF over a negative
\* resistance.
C11_Witness ==
    /\ call \in CurrentCalls
    /\ result # Null
    /\ call.emf = RatInt(-50)
    /\ call.totalResistance = RatInt(-5)
    /\ result.current = RatZero

\* C12: getCurrentDirectionAndExplanation returns fluxChange 'constant' and
\* direction 'CW' when |fluxRate| < 1e-9, whatever emf is; otherwise fluxChange is
\* 'increasing' exactly when fluxRate > 0 and 'decreasing' otherwise, and
\* direction is 'CCW' exactly when emf > 0 and 'CW' otherwise.
C12_Classification ==
    (call \in DirectionCalls /\ result # Null) =>
        IF Abs(call.fluxRate.n) < call.fluxRate.d
        THEN result.fluxChange = "constant" /\ result.direction = "CW"
        ELSE /\ result.fluxChange \in {"increasing", "decreasing"}
             /\ (result.fluxChange = "increasing") <=> (call.fluxRate.n > 0)
             /\ result.direction \in {"CW", "CCW"}
             /\ (result.direction = "CCW") <=> (call.emf.n > 0)

\* C12 witness: a rate of exactly the threshold with a positive EMF, classified
\* 'increasing' and 'CCW' (a pair calculateEMF never produces).
C12_Witness ==
    /\ call \in DirectionCalls
    /\ result # Null
    /\ call.fluxRate = RatInt(1)
    /\ call.emf = Rat(125, 2)
    /\ result.fluxChange = "increasing"
    /\ result.direction = "CCW"

\* C13: for |fluxRate| >= 1e-9, N >= 1 turns and a total resistance >= 1e-9,
\* replacing fluxRate by -fluxRate negates the EMF, negates the current, swaps
\* 'increasing' with 'decreasing' and swaps 'CW' with 'CCW'.
C13_SignFlip ==
    (call \in ReversalCalls /\ result # Null
     /\ Abs(call.fluxRate.n) >= call.fluxRate.d
     /\ call.turns >= 1
     /\ AtLeast1e9th(call.totalResistance)) =>
        LET a == result.forward
            b == result.reversed
        IN  /\ RatAdd(a.emf, b.emf) = RatZero
            /\ a.emf # RatZero
            /\ RatAdd(a.current, b.current) = RatZero
            /\ a.current # RatZero
            /\ {a.fluxChange, b.fluxChange} = {"increasing", "decreasing"}
            /\ {a.direction, b.direction} = {"CW", "CCW"}

\* C13 witness: a rate of exactly -1e-9 Wb/s reversed, 20 turns over 0.1 Ohm.
C13_Witness ==
    /\ call \in ReversalCalls
    /\ result # Null
    /\ call.fluxRate = RatInt(-1)
    /\ call.turns = 20
    /\ call.totalResistance = Rat(1, 10)
    /\ result.forward.direction = "CCW"
    /\ result.reversed.direction = "CW"
    /\ result.forward.current = RatInt(200)

\* C14: for every flux rate r and turn count N, calculateEMF(r, 2N) is twice
\* calculateEMF(r, N), so |EMF| exactly doubles when N doubles at a fixed rate.
C14_TurnsLinearity ==
    (call \in EmfCalls /\ result # Null) =>
        /\ result.doubled = RatAdd(result.single, result.single)
        /\ RatAbs(result.doubled) = RatMul(RatInt(2), RatAbs(result.single))

\* C14 witness: -7.5 nWb/s through 3 and 6 turns: 22.5 nV and 45 nV.
C14_Witness ==
    /\ call \in EmfCalls
    /\ result # Null
    /\ call.fluxRate = Rat(-15, 2)
    /\ call.turns = 3
    /\ result.single = Rat(45, 2)
    /\ result.doubled = RatInt(45)

\* C15 as claimed: of two runs of the Mode A pipeline that differ only in
\* coilTurns (N and 2N), with the same magnet trajectory, frame times and
\* recording, every snapshot of the 2N run has exactly twice the |emf| of the
\* corresponding snapshot of the N run.
C15_EmfDoublesWithTurns ==
    (call \in TurnsRunCalls /\ result # Null) =>
        \A i \in 1..Len(result.singleSnapshots) :
            RatAbs(result.doubledSnapshots[i].emf) =
                RatMul(RatInt(2), RatAbs(result.singleSnapshots[i].emf))

\* C16 as claimed: every MeasurementB of getCurrentSnapshotB has a finite
\* magneticField equal to polarity x mu0 x turnDensity x |current| of its own
\* fields, with current = voltage / resistance and turnDensity = turns / length,
\* and the guarded values 0 recorded for resistance <= 0 and length <= 0;
\* negating polarity negates magneticField and changes no other field.
C16_RederivableB ==
    (call \in SnapshotBCalls /\ result # Null) =>
        LET m  == result.measurement
            f  == result.flipped
        IN  /\ m.current = IF m.resistance.n > 0 THEN RatDiv(m.voltage, m.resistance)
                            ELSE RatZero
            /\ m.turnDensity = IF m.length.n > 0 THEN RatDiv(RatInt(m.turns), m.length)
                                ELSE RatZero
            /\ IsFinite(m.magneticField)
            /\ m.magneticField =
                  RatMul(RatInt(m.polarity),
                         RatMul(MU_0, RatMul(m.turnDensity, RatAbs(m.current))))
            /\ IsFinite(f.magneticField)
            /\ f.magneticField = RatNeg(m.magneticField)
            /\ f.polarity = -m.polarity
            /\ [f EXCEPT !.magneticField = m.magneticField, !.polarity = m.polarity] = m

\* log is a prefix of log2, which has at most one more record.
ExtendedByAtMostOne(log, log2) ==
    /\ Len(log) <= Len(log2)
    /\ Len(log2) <= Len(log) + 1
    /\ SubSeq(log2, 1, Len(log)) = log

\* C17: after every frame, in either mode, recording or not, the previous log of
\* each mode is a prefix of the new one, which has at most one more record; and a
\* step that removes or changes a record of a log is a Start Recording or a
\* Clear Data.
C17_LogAppendOnly ==
    [][/\ IsFrame =>
            /\ ExtendedByAtMostOne(labState.measurements, labState'.measurements)
            /\ ExtendedByAtMostOne(labState.measurementsB, labState'.measurementsB)
       /\ (\/ ~ExtendedByAtMostOne(labState.measurements, labState'.measurements)
           \/ ~ExtendedByAtMostOne(labState.measurementsB, labState'.measurementsB))
            => (handleStartRecording \/ handleClearData)]_vars

\* C17 witness: three frames have each appended their record to the Mode A log.
C17_Witness ==
    /\ labState.isRecording
    /\ labState.labMode = "faraday"
    /\ Len(labState.measurements) = 3
    /\ labState.measurements[1].timestamp = 20
    /\ labState.measurements[3].timestamp = 60

\* A CSV reader (RFC 4180).  The lines of a text, cut at every line feed.
SplitLines(text) ==
    LET feeds == {i \in 1..Len(text) : text[i] = "\n"}
        ends  == feeds \cup {Len(text) + 1}
        start(e) == IF \E i \in feeds : i < e
                    THEN (CHOOSE i \in feeds : i < e /\ \A j \in feeds : j < e => j <= i) + 1
                    ELSE 1
        nth[k \in 1..Cardinality(ends)] ==
            CHOOSE e \in ends : Cardinality({j \in ends : j < e}) = k - 1
    IN  [k \in 1..Cardinality(ends) |-> SubSeq(text, start(nth[k]), nth[k] - 1)]

\* The text of a quoted field between its outer double quotes: "" is one ", and
\* a single " closes the quoted part.
RECURSIVE Unquote(_, _)
Unquote(inner, inQuotes) ==
    IF Len(inner) = 0 THEN <<>>
    ELSE IF inner[1] = "\"" /\ inQuotes
    THEN IF Len(inner) > 1 /\ inner[2] = "\""
         THEN <<"\"">> \o Unquote(Tail(Tail(inner)), TRUE)
         ELSE Unquote(Tail(inner), FALSE)
    ELSE <<inner[1]>> \o Unquote(Tail(inner), inQuotes)

\* The fields of one line: cut at the commas outside double quotes (those with an
\* even number of double quotes before them); a field that opens with a double
\* quote is read as a quoted one.
ParseRow(line) ==
    LET seps == {i \in 1..Len(line) :
                    /\ line[i] = ","
                    /\ Cardinality({j \in 1..(i - 1) : line[j] = "\""}) % 2 = 0}
        ends == seps \cup {Len(line) + 1}
        start(e) == IF \E i \in seps : i < e
                    THEN (CHOOSE i \in seps : i < e /\ \A j \in seps : j < e => j <= i) + 1
                    ELSE 1
        nth[k \in 1..Cardinality(ends)] ==
            CHOOSE e \in ends : Cardinality({j \in ends : j < e}) = k - 1
        raw(k) == SubSeq(line, start(nth[k]), nth[k] - 1)
        field(r) == IF Len(r) > 0 /\ r[1] = "\"" THEN Unquote(Tail(r), TRUE) ELSE r
    IN  [k \in 1..Cardinality(ends) |-> field(raw(k))]

\* The natural number a run of digits writes.
RECURSIVE DigitsValue(_, _)
DigitsValue(ds, acc) ==
    IF Len(ds) = 0 THEN acc
    ELSE DigitsValue(Tail(ds), 10 * acc + (CHOOSE d \in 0..9 : Digits[d + 1] = ds[1]))

\* The number a field with six decimals writes, in units of 1e-6.
ParseMicro(field) ==
    LET neg  == field[1] = "-"
        body == IF neg THEN Tail(field) ELSE field
        dot  == CHOOSE i \in 1..Len(body) : body[i] = "."
        v    == DigitsValue(SubSeq(body, 1, dot - 1), 0) * 1000000
                    + DigitsValue(SubSeq(body, dot + 1, Len(body)), 0)
    IN  IF neg THEN -v ELSE v

\* The field has six decimals and is within half of 1e-6 of the rational x.
RecoversTo6Decimals(field, x) ==
    /\ \E i \in 1..Len(field) : field[i] = "." /\ Len(field) - i = 6
    /\ 2 * Abs(ParseMicro(field) * x.d - x.n * 1000000) <= x.d

NumericFields(m) ==
    <<m.timestamp, m.deltaT, m.magnetX, m.magnetY, m.velocityX, m.velocityY, m.speed,
      RatInt(m.turns), m.radius, m.angle, m.coilResistance, m.loadResistance,
      m.totalResistance, m.magneticFieldX, m.magneticFieldY, m.magneticFieldMag,
      m.flux, m.fluxRate, m.emf, m.current>>

\* C18: exportToCSV writes the empty string for an empty log; otherwise one
\* header line and then one row per record in log order, each of 23 fields; read
\* back as CSV, each numeric field is the record's value to 6 decimal places (the
\* turn count exactly) and the last field is exactly the record's lenzExplanation,
\* double quotes and commas included.
C18_CsvRoundTrip ==
    (call \in ExportCalls /\ result # Null) =>
        LET log   == call.measurements
            lines == SplitLines(result.csv)
        IN  IF Len(log) = 0 THEN result.csv = <<>>
            ELSE /\ Len(lines) = Len(log) + 1
                 /\ Len(ParseRow(lines[1])) = 23
                 /\ \A i \in 1..Len(log) :
                      LET f == ParseRow(lines[i + 1])
                          v == NumericFields(log[i])
                      IN  /\ Len(f) = 23
                          /\ \A k \in (1..20) \ {8} : RecoversTo6Decimals(f[k], v[k])
                          /\ DigitsValue(f[8], 0) = log[i].turns
                          /\ f[21] = <<log[i].direction>>
                          /\ f[22] = <<log[i].fluxChange>>
                          /\ f[23] = log[i].lenzExplanation

\* C18 witness: a log of three records exported, the second with an explanation
\* that holds double quotes and commas, the first with commas only.
C18_Witness ==
    /\ call \in ExportCalls
    /\ result # Null
    /\ Len(call.measurements) = 3
    /\ \E i \in 1..Len(call.measurements[2].lenzExplanation) :
          call.measurements[2].lenzExplanation[i] = "\""
    /\ \E i \in 1..Len(call.measurements[1].lenzExplanation) :
          call.measurements[1].lenzExplanation[i] = ","
    /\ Len(SplitLines(result.csv)) = 4

\* The log of the mode a lab state is in.
ActiveLog(st) == IF st.labMode = "faraday" THEN st.measurements ELSE st.measurementsB

\* The snapshot a frame in the mode of st has produced.
ActiveMeasurement(st, mA, mB) == IF st.labMode = "faraday" THEN mA ELSE mB

\* C19: while recording, a frame appends its snapshot to the log of the active
\* mode only when the simulated time is at least 1/60 s past the timestamp of the
\* last record of that log (0 for an empty log), so a record appended by a frame
\* is at least 1/60 s later than the record before it; the other mode's log is
\* left alone, and a frame while not recording appends nothing.
C19_SixtyHertz ==
    [][IsFrame =>
          LET log  == ActiveLog(labState)
              log2 == ActiveLog(labState')
              last == IF Len(log) = 0 THEN 0 ELSE log[Len(log)].timestamp
          IN  /\ ~labState.isRecording =>
                    /\ labState'.measurements = labState.measurements
                    /\ labState'.measurementsB = labState.measurementsB
              /\ labState.labMode = "faraday" => labState'.measurementsB = labState.measurementsB
              /\ labState.labMode # "faraday" => labState'.measurements = labState.measurements
              /\ log2 # log =>
                    /\ labState.isRecording
                    /\ log2 = Append(log, ActiveMeasurement(labState, currentMeasurement',
                                                           currentMeasurementB'))
                    /\ log2[Len(log2)].timestamp = labState'.time
                    /\ 60 * (labState'.time - last) >= 1000
                    /\ Len(log) > 0 =>
                          60 * (log2[Len(log2)].timestamp - log[Len(log)].timestamp) >= 1000]_vars

\* C19 witness: recording, a frame 10 ms after the start logged nothing and the
\* next one, at 30 ms, logged the first record.
C19_Witness ==
    /\ labState.isRecording
    /\ labState.fluxTimeHistory = <<10, 30>>
    /\ Len(labState.measurements) = 1
    /\ labState.measurements[1].timestamp = 30

\* C20 as claimed: in every reachable state, recording or not, after any frames,
\* Stop Recording, mode changes and Start Recording, the entries of
\* fluxTimeHistory are non-decreasing from the oldest to the newest.
C20_TimeOrderedAlways ==
    \A i \in 1..Len(labState.fluxTimeHistory) :
        \A j \in i..Len(labState.fluxTimeHistory) :
            labState.fluxTimeHistory[i] <= labState.fluxTimeHistory[j]

\* The raw flux integral of the coil for the magnet position of st.
RawFlux(st) ==
    calculateFlux(CoilOf(st), st.magnetPosition, st.magnetDipoleMoment,
                  st.fluxIntegrationSamples)

\* C21: after every processed Mode A frame the last entry of fluxHistory is the
\* flux field of the Measurement that frame produced (the smoothed flux) and the
\* last entry of fluxTimeHistory is that Measurement's timestamp.
C21_PersistedIsReported ==
    [][(IsProcessedFrame /\ labState.labMode = "faraday") =>
          /\ currentMeasurement' # Null
          /\ Len(labState'.fluxHistory) > 0
          /\ labState'.fluxHistory[Len(labState'.fluxHistory)] = currentMeasurement'.flux
          /\ Len(labState'.fluxTimeHistory) > 0
          /\ labState'.fluxTimeHistory[Len(labState'.fluxTimeHistory)] =
                currentMeasurement'.timestamp]_vars

\* C21 witness: the magnet was dragged between two frames; the second frame stored
\* the smoothed flux it reported, which is not the raw integral at the new position.
C21_Witness ==
    /\ labState.labMode = "faraday"
    /\ currentMeasurement # Null
    /\ Len(labState.fluxHistory) = 2
    /\ labState.magnetPosition = [x |-> -30, y |-> 20]
    /\ labState.fluxHistory[2] = currentMeasurement.flux
    /\ labState.fluxHistory[2] # RawFlux(labState)
    /\ labState.fluxHistory[2] # labState.fluxHistory[1]

\* C22: the first processed Mode A frame after Start Recording finds the history
\* empty, and a snapshot computed on an empty history reports the raw integrated
\* flux, flux rate 0, EMF 0, current 0 and fluxChange 'constant'; a snapshot
\* computed on a non-empty history with fluxSmoothingWindow > 0 reports
\* 0.3 x raw flux + 0.7 x the last stored entry (to the rounding of the flux grid).
C22_FirstSnapshotRaw ==
    [][(IsProcessedFrame /\ labState.labMode = "faraday") =>
          LET m    == currentMeasurement'
              raw  == RawFlux(labState')
              h    == labState.fluxHistory
          IN  /\ (labState.isRecording /\ labState.time = 0) => Len(h) = 0
              /\ Len(h) = 0 =>
                    /\ m.flux = raw
                    /\ m.fluxRate = RatZero
                    /\ m.emf = RatZero
                    /\ m.current = RatZero
                    /\ m.fluxChange = "constant"
              /\ (Len(h) > 0 /\ labState.fluxSmoothingWindow > 0) =>
                    /\ 2 * Abs(10 * m.flux - (3 * raw + 7 * h[Len(h)])) <= 10
                    /\ h[Len(h)] # raw => m.flux # raw]_vars

\* C22 witness: three frames and a Start Recording before the second: the second
\* reported the raw flux (the first of the two stored entries); the magnet was
\* then dragged and the third frame reported a smoothed flux, neither the raw
\* value at the new position nor the stored one.
C22_Witness ==
    /\ labState.isRecording
    /\ labState.labMode = "faraday"
    /\ labState.magnetPosition = [x |-> -30, y |-> 20]
    /\ labState.fluxTimeHistory = <<20, 40>>
    /\ labState.fluxHistory[1] = RawFlux(INITIAL_STATE)
    /\ labState.fluxHistory[2] # RawFlux(labState)
    /\ labState.fluxHistory[2] # labState.fluxHistory[1]
    /\ framesLeft = SessionFrames - 3

\* A step is a Start Recording (the only step that turns isRecording on); a step
\* is a mode change.
IsStartRecording == ~labState.isRecording /\ labState'.isRecording

IsModeChange == labState'.labMode # labState.labMode

\* The fields of the lab state that Start Recording may write.
RecordingFields ==
    {"isRecording", "time", "fluxHistory", "fluxTimeHistory", "measurements", "measurementsB"}

\* C23: Start Recording sets isRecording, resets time to 0, empties fluxHistory
\* and fluxTimeHistory and empties the log of the active mode only; the other
\* mode's log and every other field of the lab state (magnet, coil, solenoid and
\* electrical parameters) are unchanged.  A mode change leaves isRecording false,
\* time 0 and both logs unchanged.
C23_StartAndModeChange ==
    [][/\ IsStartRecording =>
            /\ labState'.time = 0
            /\ labState'.fluxHistory = <<>>
            /\ labState'.fluxTimeHistory = <<>>
            /\ ActiveLog(labState') = <<>>
            /\ labState.labMode = "faraday" => labState'.measurementsB = labState.measurementsB
            /\ labState.labMode # "faraday" => labState'.measurements = labState.measurements
            /\ \A f \in (DOMAIN labState) \ RecordingFields : labState'[f] = labState[f]
       /\ IsModeChange =>
            /\ ~labState'.isRecording
            /\ labState'.time = 0
            /\ labState'.measurements = labState.measurements
            /\ labState'.measurementsB = labState.measurementsB]_vars

\* C23 witness: a record logged in Mode A, a change to Mode B while recording, and
\* Start Recording in Mode B: the Mode A log still holds its record.
C23_Witness ==
    /\ labState.labMode = "currentToField"
    /\ labState.isRecording
    /\ labState.time = 0
    /\ Len(labState.measurements) = 1
    /\ labState.measurementsB = <<>>
    /\ Len(labState.fluxHistory) = 0
    /\ eventsLeft = SessionEvents - 3

\* The ideal field mu0 x (N / L) x I of a call of calculateFieldSolenoidAxis, and
\* the distance from z to the nearer end of the solenoid.
IdealField(c) == RatMul(RatMul(MU_0, RatDiv(RatInt(c.turns), c.solenoidLength)), c.current)

MinDistanceFromEnd(c) ==
    LET half == RatDiv(c.solenoidLength, RatInt(2))
        l    == RatAdd(c.z, half)
        r    == RatAdd(half, RatNeg(c.z))
    IN  IF RatLe(l, r) THEN l ELSE r

\* C24 as claimed: with end effects, for L > 0, I >= 0, N >= 0 and every z, inside
\* or outside the solenoid, calculateFieldSolenoidAxis returns a value from 0 to
\* the ideal value: the ideal value when z is at least 0.1 x L from both ends, the
\* ideal value scaled by minDistanceFromEnd / (0.1 x L) inside the end band, and
\* never a negative value.
C24_EndEffectBounds ==
    (call \in FieldAxisCalls /\ result # Null /\ call.useEndEffects) =>
        LET ideal == IdealField(call)
            dist  == MinDistanceFromEnd(call)
            band  == RatMul(call.solenoidLength, Rat(1, 10))
        IN  /\ RatLe(RatZero, result.field)
            /\ RatLe(result.field, ideal)
            /\ IF RatLe(band, dist) THEN result.field = ideal
               ELSE RatMul(result.field, band) = RatMul(ideal, dist)

TimestampsOrdered(log) ==
    \A i \in 1..Len(log) : \A j \in i..Len(log) : log[i].timestamp <= log[j].timestamp

\* C26 as claimed: in every reachable state the timestamps of the records of the
\* Mode A log and of the Mode B log are non-decreasing in log order, after any
\* interleaving of frames, Start and Stop Recording, mode changes and Add Snapshot.
C26_LogTimesOrdered ==
    /\ TimestampsOrdered(labState.measurements)
    /\ TimestampsOrdered(labState.measurementsB)

\* C27 as claimed: while isRecording is true, no record of the active mode's log
\* has a timestamp greater than the simulated time, for every interleaving of
\* Start Recording, Add Snapshot and frames.
C27_NoRecordFromTheFuture ==
    labState.isRecording =>
        \A i \in 1..Len(ActiveLog(labState)) :
            ActiveLog(labState)[i].timestamp <= labState.time

\* C28 as claimed: every Measurement with fluxChange 'constant' has emf and
\* current exactly 0, for every flux rate, turn count and resistance.
C28_ConstantMeansNoEmf ==
    /\ (call \in SnapshotCalls /\ result # Null
        /\ result.measurement.fluxChange = "constant")
          => /\ result.measurement.emf = RatZero
             /\ result.measurement.current = RatZero
    /\ (call \in TurnsRunCalls /\ result # Null) =>
          \A i \in 1..Len(result.singleSnapshots) :
              result.singleSnapshots[i].fluxChange = "constant"
                => /\ result.singleSnapshots[i].emf = RatZero
                   /\ result.singleSnapshots[i].current = RatZero
    /\ (call \in ReversalCalls /\ result # Null /\ result.forward.fluxChange = "constant")
          => /\ result.forward.emf = RatZero
             /\ result.forward.current = RatZero

\* The direction and the flux-change class of the record m agree as the
\* explanation words them.
LenzAgrees(m) ==
    /\ m.direction \in {"CW", "CCW"}
    /\ m.fluxChange \in {"increasing", "decreasing", "constant"}
    /\ (m.direction = "CCW") <=> (m.fluxChange = "decreasing")
    /\ (m.direction = "CW") <=> (m.fluxChange \in {"increasing", "constant"})
    /\ m.fluxChange = "decreasing" => m.emf.n > 0
    /\ m.fluxChange = "increasing" => m.emf.n < 0

\* C29: every Measurement of getCurrentSnapshot with coilTurns >= 1 has direction
\* 'CCW' exactly when fluxChange is 'decreasing' (and then emf > 0) and 'CW'
\* exactly when fluxChange is 'increasing' (and then emf < 0) or 'constant'.
C29_LenzConsistent ==
    /\ (call \in SnapshotCalls /\ result # Null /\ call.labState.coilTurns >= 1)
          => LenzAgrees(result.measurement)
    /\ (call \in TurnsRunCalls /\ result # Null) =>
          \A i \in 1..Len(result.singleSnapshots) :
              /\ LenzAgrees(result.singleSnapshots[i])
              /\ LenzAgrees(result.doubledSnapshots[i])

\* C29 witness: a snapshot on a stored history whose last flux lies below the new
\* one: a flux rate above the threshold, a negative EMF, 'increasing' and 'CW'.
C29_Witness ==
    /\ call \in SnapshotCalls
    /\ result # Null
    /\ call.labState.coilTurns = 20
    /\ result.measurement.fluxRate.n > 0
    /\ result.measurement.fluxChange = "increasing"
    /\ result.measurement.direction = "CW"
    /\ result.measurement.emf.n < 0

====
